---- MODULE Spec2Model ----
(***************************************************************************)
(* A model of the Xiaohongshu scraper: the URL recognizer                  *)
(* (scraper.py extract_xhs_url and the copy inlined in xhs_scraper.py's    *)
(* __main__ block), the FastAPI handler of main.py, and the two copies of  *)
(* scrape_xhs (scraper.py and xhs_scraper.py).                             *)
(*                                                                         *)
(* Strings are sequences of tokens.  A token is a run of characters the    *)
(* regular expressions of the program always consume as a whole            *)
(* ("https://", "xiaohongshu", "com/", ...) or a single character          *)
(* (".", "\", "S", "a", " ").  Only " " is whitespace.                     *)
(***************************************************************************)
EXTENDS Integers, Sequences, FiniteSets, TLC

\* ------------------------------------------------------------------ bounds
\* Number of fragments an input text is assembled from.
MaxFrags == 3
\* Number of entries of imageList in the state blob.
MaxImgs == 2
\* Number of <meta>, <link> and <img> tags in a page.
MaxTags == 3

\* ------------------------------------------------------- strings and regex
Scheme == {"http://", "https://"}
Paths == {"explore/", "discovery/item/"}
\* Tokens that are one character long: what the regex atom "." can match.
AnyChar == {".", "\\", "S", "a", " "}

IsSpace(t) == t = " "

\* Python's None / a value, for Optional[str].
None == [some |-> FALSE, v |-> <<>>]
Some(x) == [some |-> TRUE, v |-> x]

\* A pattern is a sequence of token classes; it matches text at position i
\* when every class contains the token at its place.
MatchAt(text, i, pat) ==
    /\ i + Len(pat) - 1 <= Len(text)
    /\ \A k \in 1..Len(pat) : text[i + k - 1] \in pat[k]

\* Last index of the greedy \S+ that starts at position i (i - 1: no match).
RECURSIVE RunEnd(_, _)
RunEnd(text, i) ==
    IF i <= Len(text) /\ ~IsSpace(text[i]) THEN RunEnd(text, i + 1) ELSE i - 1

\* r"(https?://xhslink\.com/\S+)"
ShortPat == <<Scheme, {"xhslink"}, {"."}, {"com/"}>>

ShortAt(text, i) ==
    /\ MatchAt(text, i, ShortPat)
    /\ RunEnd(text, i + Len(ShortPat)) >= i + Len(ShortPat)

\* re.search(r"(https?://xhslink\.com/\S+)", text): leftmost match, group(1).
xhslink_match(text) ==
    IF \E i \in 1..Len(text) : ShortAt(text, i)
    THEN LET i == CHOOSE j \in 1..Len(text) :
                      ShortAt(text, j) /\ \A k \in 1..(j - 1) : ~ShortAt(text, k)
         IN  Some(SubSeq(text, i, RunEnd(text, i + Len(ShortPat))))
    ELSE None

\* r"^https?://(www\.)?xiaohongshu\.com/(explore|discovery/item)/\S+"
CanonPats ==
    { <<Scheme, {"www"}, {"."}, {"xiaohongshu"}, {"."}, {"com/"}, Paths>>,
      <<Scheme, {"xiaohongshu"}, {"."}, {"com/"}, Paths>> }

canon_search(text) ==
    \E p \in CanonPats :
        /\ MatchAt(text, 1, p)
        /\ RunEnd(text, Len(p) + 1) >= Len(p) + 1

\* extract_xhs_url with the two rules in the other order.
extract_xhs_url_canon_first(text) ==
    IF canon_search(text) THEN Some(text) ELSE xhslink_match(text)

\* scraper.py extract_xhs_url
extract_xhs_url(text) ==
    LET m == xhslink_match(text)
    IN  IF m.some THEN m
        ELSE IF canon_search(text) THEN Some(text)
        ELSE None

\* xhs_scraper.py line 162: the raw string doubles every backslash, so the
\* regex reads: "www" backslash any-char, "xiaohongshu" backslash any-char
\* "com/", and after the path a backslash followed by one or more "S".
CliCanonPats ==
    { <<Scheme, {"www"}, {"\\"}, AnyChar, {"xiaohongshu"}, {"\\"}, AnyChar,
        {"com/"}, Paths, {"\\"}, {"S"}>>,
      <<Scheme, {"xiaohongshu"}, {"\\"}, AnyChar, {"com/"}, Paths, {"\\"}, {"S"}>> }

cli_canon_search(text) == \E p \in CliCanonPats : MatchAt(text, 1, p)

\* xhs_scraper.py __main__, lines 151-169: the URL the script goes on with,
\* None when it exits with status 1.
cli_recognize(raw_input) ==
    LET m == xhslink_match(raw_input)
    IN  IF m.some THEN m
        ELSE IF cli_canon_search(raw_input) THEN Some(raw_input)
        ELSE None

\* ------------------------------------------------------------ Python values
\* A value decoded by json.loads, or held by a Python variable of scrape_xhs.
\* k is its type and one field holds it: n a number, s a str (its sequence of
\* tokens, so "" is PStr(<<>>)), l the elements of a list, d the members of a
\* dict in insertion order, each [key, val].
PNone == [k |-> "none", n |-> 0, s |-> <<>>, l |-> <<>>, d |-> <<>>]
PNum(n) == [PNone EXCEPT !.k = "num", !.n = n]
PStr(s) == [PNone EXCEPT !.k = "str", !.s = s]
PList(l) == [PNone EXCEPT !.k = "list", !.l = l]
PDict(d) == [PNone EXCEPT !.k = "dict", !.d = d]
KV(key, val) == [key |-> key, val |-> val]
EmptyStr == PStr(<<>>)
EmptyDict == PDict(<<>>)

\* bool(x)
Truthy(x) ==
    CASE x.k = "none" -> FALSE
      [] x.k = "num" -> x.n # 0
      [] x.k = "str" -> Len(x.s) > 0
      [] x.k = "list" -> Len(x.l) > 0
      [] x.k = "dict" -> Len(x.d) > 0

\* a or b
Or(a, b) == IF Truthy(a) THEN a ELSE b

\* Only a dict has .get; on anything else the call raises AttributeError.
HasGet(x) == x.k = "dict"

\* obj.get(key, default), for a dict obj.
Get(obj, key, default) ==
    IF \E i \in 1..Len(obj.d) : obj.d[i].key = key
    THEN obj.d[CHOOSE i \in 1..Len(obj.d) : obj.d[i].key = key].val
    ELSE default

\* iter(x) succeeds on list, str and dict; on None and numbers it raises
\* TypeError.
Iterable(x) == x.k \in {"list", "str", "dict"}

\* The items "for img in x" goes through: the elements of a list, the
\* characters of a str, the keys of a dict.
Items(x) ==
    CASE x.k = "list" -> x.l
      [] x.k = "str" -> [i \in 1..Len(x.s) |-> PStr(<<x.s[i]>>)]
      [] x.k = "dict" -> [i \in 1..Len(x.d) |-> PStr(<<x.d[i].key>>)]

\* ------------------------------------------------------- structured tier
\* json_data.get('note', {}).get('noteDetailMap', {}).get('default', {})
\*          .get('note', {})
NotePath == <<"note", "noteDetailMap", "default", "note">>

RECURSIVE Walk(_, _)
Walk(obj, i) ==
    IF i > Len(NotePath) THEN [ok |-> TRUE, v |-> obj]
    ELSE IF ~HasGet(obj) THEN [ok |-> FALSE, v |-> obj]
    ELSE Walk(Get(obj, NotePath[i], EmptyDict), i + 1)

\* img.get('url_default') or img.get('url'): the filter of the comprehension
ImgCond(img) == Truthy(Or(Get(img, "url_default", PNone), Get(img, "url", PNone)))

\* img.get('url_default', '') or img.get('url', '')
ImgUrl(img) == Or(Get(img, "url_default", EmptyStr), Get(img, "url", EmptyStr))

\* [ImgUrl(img) for img in items if ImgCond(img)], then [url for url in .. if url]
ImageUrlsOf(items) ==
    LET picked == SelectSeq(items, ImgCond)
        urls == [i \in 1..Len(picked) |-> ImgUrl(picked[i])]
    IN  SelectSeq(urls, Truthy)

\* The values of title, body and image_urls before the try block.
Blank == [title |-> EmptyStr, body |-> EmptyStr, image_urls |-> <<>>, exc |-> ""]

\* The try block of scrape_xhs (identical in both copies): the variables after
\* it, and the exception that ended it ("" when none did).  An assignment made
\* before the raising statement stays made.
StructuredTier(doc) ==
    IF doc.script \in {"absent", "nomatch"} THEN Blank
    ELSE IF doc.script = "badjson" THEN [Blank EXCEPT !.exc = "JSONDecodeError"]
    ELSE
      LET w == Walk(doc.state, 1)
          note_data == w.v
      IN  IF ~w.ok \/ ~HasGet(note_data) THEN [Blank EXCEPT !.exc = "AttributeError"]
          ELSE
            LET t == Get(note_data, "title", EmptyStr)
                b == Get(note_data, "desc", EmptyStr)
                images_list == Get(note_data, "imageList", PList(<<>>))
                assigned == [Blank EXCEPT !.title = t, !.body = b]
            IN  IF ~Iterable(images_list) THEN [assigned EXCEPT !.exc = "TypeError"]
                ELSE IF \E i \in 1..Len(Items(images_list)) :
                            ~HasGet(Items(images_list)[i])
                     THEN [assigned EXCEPT !.exc = "AttributeError"]
                     ELSE [assigned EXCEPT
                              !.image_urls = ImageUrlsOf(Items(images_list))]

\* except (json.JSONDecodeError, AttributeError, KeyError): pass
Caught == {"JSONDecodeError", "AttributeError", "KeyError"}

\* ------------------------------------------------------------- HTML tiers
\* The literal suffix " - <site name>" of scrape_xhs, one token.
suffix == " - XHS"

\* str.strip()
RECURSIVE lstrip(_)
lstrip(s) == IF Len(s) > 0 /\ IsSpace(s[1]) THEN lstrip(Tail(s)) ELSE s

RECURSIVE rstrip(_)
rstrip(s) ==
    IF Len(s) > 0 /\ IsSpace(s[Len(s)]) THEN rstrip(SubSeq(s, 1, Len(s) - 1)) ELSE s

strip(s) == rstrip(lstrip(s))

endswith(s, tok) == Len(s) > 0 /\ s[Len(s)] = tok

\* The title taken from the text of the <title> tag.
TitleFromTag(text) ==
    LET full_title == strip(text)
    IN  IF endswith(full_title, suffix)
        THEN strip(SubSeq(full_title, 1, Len(full_title) - 1))
        ELSE full_title

\* tag.get(attr) is truthy: the attribute is there and not "".
AttrSet(a) == a.some /\ Len(a.v) > 0

\* scraper.py lines 74-82
ApiTitle(doc, title) ==
    IF Truthy(title) THEN title
    ELSE IF doc.title.some THEN PStr(TitleFromTag(doc.title.v))
    ELSE title

\* xhs_scraper.py lines 67-81: as above, then the first <h1>
CliTitle(doc, title) ==
    IF Truthy(title) THEN title
    ELSE IF doc.title.some THEN PStr(TitleFromTag(doc.title.v))
    ELSE IF doc.h1.some THEN PStr(strip(doc.h1.v))
    ELSE title

\* scraper.py lines 84-87
ApiBody(doc, body) ==
    IF Truthy(body) THEN body
    ELSE IF doc.meta_desc.tag /\ AttrSet(doc.meta_desc.content)
         THEN PStr(strip(doc.meta_desc.content.v))
    ELSE body

\* xhs_scraper.py lines 83-93: as above, then the first div whose class matches
CliBody(doc, body) ==
    IF Truthy(body) THEN body
    ELSE IF doc.meta_desc.tag /\ AttrSet(doc.meta_desc.content)
         THEN PStr(strip(doc.meta_desc.content.v))
    ELSE IF doc.desc_div.some THEN PStr(strip(doc.desc_div.v))
    ELSE body

\* soup.find_all of one kind of tag, in document order.
OfType(tags, ty) == SelectSeq(tags, LAMBDA t : t.type = ty)

\* find_all('meta', name='og:image') or find_all('meta', property='og:image')
og_image_tags(doc) ==
    IF Len(OfType(doc.tags, "og_name")) > 0 THEN OfType(doc.tags, "og_name")
    ELSE OfType(doc.tags, "og_prop")

link_tags(doc) == OfType(doc.tags, "preload")

img_tags(doc) == OfType(doc.tags, "img")

\* [tag.get(attr) for tag in tags], without the filter
UnfilteredVals(tags) ==
    [i \in 1..Len(tags) |-> IF tags[i].val.some THEN PStr(tags[i].val.v) ELSE PNone]

\* [tag.get(attr) for tag in tags if tag.get(attr)]
NonEmptyVals(tags) ==
    LET kept == SelectSeq(tags, LAMBDA t : AttrSet(t.val))
    IN  [i \in 1..Len(kept) |-> PStr(kept[i].val.v)]

\* for v in vals: if v not in image_urls: image_urls.append(v)
RECURSIVE AppendNew(_, _)
AppendNew(image_urls, vals) ==
    IF vals = <<>> THEN image_urls
    ELSE AppendNew(IF \E i \in 1..Len(image_urls) : image_urls[i] = Head(vals)
                   THEN image_urls ELSE Append(image_urls, Head(vals)),
                   Tail(vals))

\* scraper.py line 95
ApiOgTier(tags) == NonEmptyVals(tags)

\* scraper.py lines 89-99
ApiImages(doc, image_urls) ==
    IF Len(image_urls) > 0 THEN image_urls
    ELSE IF Len(og_image_tags(doc)) > 0 THEN ApiOgTier(og_image_tags(doc))
    ELSE NonEmptyVals(link_tags(doc))

\* int(s)
IsInt(s) == s \in {"20", "100"}
IntOf(s) == IF s = "20" THEN 20 ELSE 100

\* xhs_scraper.py lines 120-131: the src of an <img> tag that passes the
\* filter, None when the tag is skipped.
ImgSrc(img) ==
    LET src == IF AttrSet(img.val) THEN img.val ELSE img.alt
        w_ok == IF AttrSet(img.width) /\ IsInt(img.width.v[1])
                THEN IntOf(img.width.v[1]) > 50 ELSE TRUE
        ok == IF AttrSet(img.height) /\ w_ok /\ IsInt(img.height.v[1])
              THEN IntOf(img.height.v[1]) > 50 ELSE w_ok
    IN  IF AttrSet(src)
           /\ ((\E i \in 1..Len(src.v) : src.v[i] = "xiaohongshu.com")
                \/ src.v[1] = "http")
           /\ ok
        THEN src ELSE None

\* xhs_scraper.py lines 118-134
CliImgTier(tags) ==
    LET kept == SelectSeq(tags, LAMBDA t : ImgSrc(t).some)
    IN  AppendNew(<<>>, [i \in 1..Len(kept) |-> PStr(ImgSrc(kept[i]).v)])

\* xhs_scraper.py lines 102-106
CliOgTier(tags) == AppendNew(<<>>, NonEmptyVals(tags))

\* xhs_scraper.py lines 109-114
CliPreloadTier(tags) == AppendNew(<<>>, NonEmptyVals(tags))

\* xhs_scraper.py lines 96-134
CliImages(doc, image_urls) ==
    IF Len(image_urls) > 0 THEN image_urls
    ELSE IF Len(CliOgTier(og_image_tags(doc))) > 0 THEN CliOgTier(og_image_tags(doc))
    ELSE IF Len(CliPreloadTier(link_tags(doc))) > 0 THEN CliPreloadTier(link_tags(doc))
    ELSE CliImgTier(img_tags(doc))

\* ----------------------------------------------------------- scrape_xhs
\* What a call of scrape_xhs ends with: "none" (return None), "dict" (the
\* record) or "raised" (an exception leaves the function).
NoResult == [end |-> "unset", exc |-> "", title |-> EmptyStr, body |-> EmptyStr,
             image_urls |-> <<>>]
ReturnNone == [NoResult EXCEPT !.end = "none"]

\* scraper.py scrape_xhs, lines 51-105: from the parsed page to the return.
ApiExtract(doc) ==
    LET st == StructuredTier(doc)
    IN  IF st.exc # "" /\ st.exc \notin Caught
        THEN [NoResult EXCEPT !.end = "raised", !.exc = st.exc]
        ELSE [end |-> "dict", exc |-> "",
              title |-> ApiTitle(doc, st.title),
              body |-> ApiBody(doc, st.body),
              image_urls |-> ApiImages(doc, st.image_urls)]

\* xhs_scraper.py scrape_xhs, lines 32-140
CliExtract(doc) ==
    LET st == StructuredTier(doc)
    IN  IF st.exc # "" /\ st.exc \notin Caught
        THEN [NoResult EXCEPT !.end = "raised", !.exc = st.exc]
        ELSE [end |-> "dict", exc |-> "",
              title |-> CliTitle(doc, st.title),
              body |-> CliBody(doc, st.body),
              image_urls |-> CliImages(doc, st.image_urls)]

\* ------------------------------------------------------------------ pages
\* A parsed page, as the views scrape_xhs takes of it:
\*   script    the <script> holding window.__INITIAL_STATE__: "absent" (find
\*             returns None), "nomatch" (the second regex finds no object
\*             literal), "badjson" (json.loads raises) or "json"
\*   state     the decoded object literal, when script = "json"
\*   title, h1, desc_div   the text of the first such tag, None when absent
\*   meta_desc the first <meta name="description"> and its content attribute
\*   tags      the og:image metas, preload links and imgs, in document order
EmptyDoc ==
    [script |-> "absent", state |-> EmptyDict, title |-> None, h1 |-> None,
     meta_desc |-> [tag |-> FALSE, content |-> None], desc_div |-> None,
     tags |-> <<>>]

Tag(ty, val) == [type |-> ty, val |-> val, alt |-> None, width |-> None, height |-> None]
Img(src, data_src, w, h) ==
    [type |-> "img", val |-> src, alt |-> data_src, width |-> w, height |-> h]

A == Some(<<"a">>)
B == Some(<<"b">>)
Empty == Some(<<>>)

TagAlphabet ==
    { Tag("og_name", c) : c \in {None, A, B} }
    \cup { Tag("og_prop", c) : c \in {Empty, A} }
    \cup { Tag("preload", c) : c \in {Empty, B} }
    \cup { Img(Some(<<"http", "a">>), None, None, None),
           Img(None, Some(<<"xiaohongshu.com", "b">>), Some(<<"abc">>), Some(<<"100">>)),
           Img(Some(<<"rel">>), None, None, None),
           Img(Some(<<"http", "icon">>), None, Some(<<"20">>), None) }

TagSeqs == UNION { [1..n -> TagAlphabet] : n \in 0..MaxTags }

RECURSIVE Nest(_, _)
Nest(keys, leaf) ==
    IF keys = <<>> THEN leaf ELSE PDict(<<KV(Head(keys), Nest(Tail(keys), leaf))>>)

\* A key that the object does not have.
Absent == [PNone EXCEPT !.k = "absent"]

Member(key, val) == IF val.k = "absent" THEN <<>> ELSE <<KV(key, val)>>

MkNote(t, d, i) ==
    PDict(Member("title", t) \o Member("desc", d) \o Member("imageList", i))

U1 == PStr(<<"u1">>)
U2 == PStr(<<"u2">>)

ImgEntries ==
    { PDict(<<KV("url_default", U1)>>), PDict(<<KV("url", U2)>>), EmptyDict,
      PDict(<<KV("url_default", EmptyStr), KV("url", U2)>>),
      PStr(<<"s">>), PNone }

ImageLists ==
    { Absent, PNone, PNum(5), PStr(<<"a", "b">>), PStr(<<>>), PDict(<<KV("k", PNone)>>) }
    \cup { PList(l) : l \in UNION { [1..n -> ImgEntries] : n \in 0..MaxImgs } }

TitleVals == { Absent, PNone, EmptyStr, PStr(<<"T">>), PNum(5) }
DescVals == { Absent, PNone, PStr(<<"D">>) }

\* State blobs with the whole note path, and blobs where the path stops early
\* at a missing key or at a value that is no object.
GoodBlobs ==
    { Nest(NotePath, MkNote(t, d, i)) : t \in TitleVals, d \in DescVals, i \in ImageLists }

BrokenBlobs ==
    { Nest(SubSeq(NotePath, 1, n), leaf) :
        n \in 1..Len(NotePath), leaf \in {EmptyDict, PNone, PStr(<<"x">>), PList(<<>>)} }

FullHtml ==
    [EmptyDoc EXCEPT !.title = Some(<<"Foo", suffix>>), !.h1 = Some(<<"H">>),
                     !.meta_desc = [tag |-> TRUE, content |-> Some(<<"Bar">>)],
                     !.desc_div = Some(<<"Div">>),
                     !.tags = <<Tag("og_name", A), Tag("preload", B)>>]

WithState(doc, blob) == [doc EXCEPT !.script = "json", !.state = blob]

StructDocs ==
    { WithState(h, b) : h \in {EmptyDoc, FullHtml}, b \in GoodBlobs \cup BrokenBlobs }

TagDocs == { [EmptyDoc EXCEPT !.tags = t] : t \in TagSeqs }

TextDocs ==
    { [d EXCEPT !.title = t, !.h1 = h, !.meta_desc = m, !.desc_div = v] :
        d \in { EmptyDoc, [EmptyDoc EXCEPT !.script = "nomatch"],
                [EmptyDoc EXCEPT !.script = "badjson"],
                WithState(EmptyDoc, Nest(NotePath, MkNote(PNone, PNone, Absent))),
                WithState(EmptyDoc, Nest(NotePath, MkNote(PStr(<<"T">>), PStr(<<"D">>), Absent))) },
        t \in { None, Empty, Some(<<"Foo">>), Some(<<"Foo", suffix>>),
                Some(<<" ", "Foo", " ", suffix, " ">>) },
        h \in { None, Some(<<"H", " ">>) },
        m \in { [tag |-> FALSE, content |-> None], [tag |-> TRUE, content |-> None],
                [tag |-> TRUE, content |-> Empty],
                [tag |-> TRUE, content |-> Some(<<" ", "Bar">>)] },
        v \in { None, Some(<<"Div">>) } }

Docs == StructDocs \cup TagDocs \cup TextDocs

\* The pages the server answers with in the front-end specification.
SampleDocs ==
    { EmptyDoc, FullHtml,
      WithState(FullHtml, Nest(NotePath, MkNote(PStr(<<"T">>), PStr(<<"D">>), PList(<<PDict(<<KV("url", U2)>>)>>)))),
      WithState(EmptyDoc, Nest(NotePath, MkNote(PNone, Absent, Absent))),
      WithState(FullHtml, Nest(NotePath, MkNote(PStr(<<"T">>), Absent, PNone))),
      WithState([EmptyDoc EXCEPT !.tags = <<Tag("og_prop", Empty), Tag("preload", B)>>],
                Nest(NotePath, MkNote(Absent, Absent, PList(<<EmptyDict>>)))) }

\* ------------------------------------------------------------ input texts
Frags ==
    { <<" ">>, <<"a">>,
      <<"https://", "xhslink", ".", "com/", "a">>,
      <<"http://", "xhslink", ".", "com/">>,
      <<"https://", "www", ".", "xiaohongshu", ".", "com/", "explore/">>,
      <<"http://", "xiaohongshu", ".", "com/", "discovery/item/", "a">>,
      <<"https://", "xiaohongshu", "\\", ".", "com/", "explore/", "\\", "S">>,
      <<"https://", "www", "\\", "a", "xiaohongshu", "\\", "S", "com/", "discovery/item/", "\\", "S">> }

RECURSIVE Concat(_)
Concat(fs) == IF fs = <<>> THEN <<>> ELSE Head(fs) \o Concat(Tail(fs))

\* ------------------------------------------------------------------ state
VARIABLES
    frags,      \* the input text, as the fragments it was assembled from
    mode,       \* who handles the input: "api" (main.py), "cli" (xhs_scraper.py
                \* __main__) or "lib" (a direct call of scrape_xhs)
    pc,         \* the handler's position
    url,        \* the recognized URL, None when there is none
    status,     \* the HTTP status of the API's response, 0 before it
    exit,       \* the exit status of the script, -1 while it runs
    fetches,    \* the requests.get calls made
    fetched,    \* "no", "ok" or the exception requests.get/raise_for_status raised
    extracts,   \* the times the code after the fetch ran
    doc,        \* the page fetched
    res         \* what scrape_xhs ended with

vars == <<frags, mode, pc, url, status, exit, fetches, fetched, extracts, doc, res>>

text == Concat(frags)

\* requests.exceptions.RequestException: network error, timeout, bad status
FetchFailures == {"ConnectionError", "Timeout", "HTTPError"}

Init ==
    /\ frags = <<>>
    /\ mode = "none"
    /\ pc = "input"
    /\ url = None
    /\ status = 0
    /\ exit = -1
    /\ fetches = 0
    /\ fetched = "no"
    /\ extracts = 0
    /\ doc = EmptyDoc
    /\ res = NoResult

\* The caller assembles the input text.
AppendFrag ==
    /\ pc = "input"
    /\ Len(frags) < MaxFrags
    /\ \E f \in Frags : frags' = Append(frags, f)
    /\ UNCHANGED <<mode, pc, url, status, exit, fetches, fetched, extracts, doc, res>>

\* "if not url" / "if not result" on an Optional
Falsy(o) == ~o.some \/ Len(o.v) = 0

\* main.py lines 35-40
ApiRecognize ==
    /\ pc = "input"
    /\ mode' = "api"
    /\ url' = extract_xhs_url(text)
    /\ IF Falsy(extract_xhs_url(text))
       THEN status' = 400 /\ pc' = "done"
       ELSE status' = status /\ pc' = "api_fetch"
    /\ UNCHANGED <<frags, exit, fetches, fetched, extracts, doc, res>>

\* ApiFetch with one retry after a failed GET.
ApiFetchRetry ==
    /\ pc = "api_fetch"
    /\ fetches' = fetches + 1
    /\ \/ /\ \E e \in FetchFailures : fetched' = e
          /\ IF fetches = 0
             THEN pc' = "api_fetch" /\ UNCHANGED <<res, status>>
             ELSE res' = ReturnNone /\ status' = 500 /\ pc' = "done"
          /\ doc' = doc
       \/ /\ fetched' = "ok"
          /\ \E d \in SampleDocs : doc' = d
          /\ pc' = "api_extract"
          /\ UNCHANGED <<res, status>>
    /\ UNCHANGED <<frags, mode, url, exit, extracts>>

\* main.py line 43, scraper.py lines 45-49: one GET; on a RequestException
\* scrape_xhs returns None and the handler raises HTTPException(500).
ApiFetch ==
    /\ pc = "api_fetch"
    /\ fetches' = fetches + 1
    /\ \/ /\ \E e \in FetchFailures : fetched' = e
          /\ res' = ReturnNone
          /\ status' = 500
          /\ pc' = "done"
          /\ doc' = doc
       \/ /\ fetched' = "ok"
          /\ \E d \in SampleDocs : doc' = d
          /\ pc' = "api_extract"
          /\ UNCHANGED <<res, status>>
    /\ UNCHANGED <<frags, mode, url, exit, extracts>>

\* scraper.py lines 51-105; an exception that leaves scrape_xhs leaves the
\* handler too and the framework answers 500.
ApiExtractStep ==
    /\ pc = "api_extract"
    /\ extracts' = extracts + 1
    /\ res' = ApiExtract(doc)
    /\ IF ApiExtract(doc).end = "raised"
       THEN status' = 500 /\ pc' = "done"
       ELSE status' = status /\ pc' = "api_respond"
    /\ UNCHANGED <<frags, mode, url, exit, fetches, fetched, doc>>

IsStr(x) == x.k = "str"
IsNum(x) == x.k = "num"

\* main.py lines 16-20 and 50-54: ScrapedContent(title: str, body: str,
\* image_urls: List[str]).  A str passes; None, a list or an object fails;
\* whether a number is coerced to a str depends on the pydantic release.
Validates(r) ==
    /\ IsStr(r.title) /\ IsStr(r.body)
    /\ \A i \in 1..Len(r.image_urls) : IsStr(r.image_urls[i])
Coercible(r) ==
    /\ IsStr(r.title) \/ IsNum(r.title)
    /\ IsStr(r.body) \/ IsNum(r.body)
    /\ \A i \in 1..Len(r.image_urls) : IsStr(r.image_urls[i]) \/ IsNum(r.image_urls[i])

ApiRespond ==
    /\ pc = "api_respond"
    /\ status' \in (IF Validates(res) THEN {200}
                    ELSE IF Coercible(res) THEN {200, 500} ELSE {500})
    /\ pc' = "done"
    /\ UNCHANGED <<frags, mode, url, exit, fetches, fetched, extracts, doc, res>>

\* xhs_scraper.py lines 150-169
CliRecognize ==
    /\ pc = "input"
    /\ mode' = "cli"
    /\ url' = cli_recognize(text)
    /\ IF cli_recognize(text).some
       THEN exit' = exit /\ pc' = (IF Falsy(cli_recognize(text)) THEN "done" ELSE "cli_fetch")
       ELSE exit' = 1 /\ pc' = "done"
    /\ UNCHANGED <<frags, status, fetches, fetched, extracts, doc, res>>

\* xhs_scraper.py lines 172-174 and 25-30; on failure lines 188-189
CliFetch ==
    /\ pc = "cli_fetch"
    /\ fetches' = fetches + 1
    /\ \/ /\ \E e \in FetchFailures : fetched' = e
          /\ res' = ReturnNone
          /\ exit' = 0
          /\ pc' = "done"
          /\ doc' = doc
       \/ /\ fetched' = "ok"
          /\ \E d \in SampleDocs : doc' = d
          /\ pc' = "cli_extract"
          /\ UNCHANGED <<res, exit>>
    /\ UNCHANGED <<frags, mode, url, status, extracts>>

\* xhs_scraper.py lines 32-140 and 176-187; an uncaught exception ends the
\* script with status 1.
CliExtractStep ==
    /\ pc = "cli_extract"
    /\ extracts' = extracts + 1
    /\ res' = CliExtract(doc)
    /\ exit' = (IF CliExtract(doc).end = "raised" THEN 1 ELSE 0)
    /\ pc' = "done"
    /\ UNCHANGED <<frags, mode, url, status, fetches, fetched, doc>>

Next ==
    \/ AppendFrag
    \/ ApiRecognize
    \/ ApiFetch
    \/ ApiExtractStep
    \/ ApiRespond
    \/ CliRecognize
    \/ CliFetch
    \/ CliExtractStep

Spec == Init /\ [][Next]_vars

\* ---------------------------------------------- scrape_xhs called directly
InitExtract ==
    /\ frags = <<>>
    /\ mode = "lib"
    /\ pc = "call"
    /\ url = None
    /\ status = 0
    /\ exit = -1
    /\ fetches = 0
    /\ fetched = "no"
    /\ extracts = 0
    /\ doc \in Docs
    /\ res = NoResult

\* scraper.py scrape_xhs, whole: the server answers with doc, or the fetch fails.
ScrapeApi ==
    /\ pc = "call"
    /\ fetches' = fetches + 1
    /\ \/ /\ \E e \in FetchFailures : fetched' = e
          /\ res' = ReturnNone
          /\ extracts' = extracts
       \/ /\ fetched' = "ok"
          /\ res' = ApiExtract(doc)
          /\ extracts' = extracts + 1
    /\ pc' = "api_returned"
    /\ UNCHANGED <<frags, mode, url, status, exit, doc>>

\* xhs_scraper.py scrape_xhs, whole
ScrapeCli ==
    /\ pc = "call"
    /\ fetches' = fetches + 1
    /\ \/ /\ \E e \in FetchFailures : fetched' = e
          /\ res' = ReturnNone
          /\ extracts' = extracts
       \/ /\ fetched' = "ok"
          /\ res' = CliExtract(doc)
          /\ extracts' = extracts + 1
    /\ pc' = "cli_returned"
    /\ UNCHANGED <<frags, mode, url, status, exit, doc>>

NextExtract ==
    \/ ScrapeApi
    \/ ScrapeCli

SpecExtract == InitExtract /\ [][NextExtract]_vars

\* ================================================================ claims
\* The input holds a short link somewhere.
HasShortLink(t) ==
    \E i \in 1..Len(t) :
        /\ MatchAt(t, i, ShortPat)
        /\ i + Len(ShortPat) <= Len(t)
        /\ ~IsSpace(t[i + Len(ShortPat)])

\* The entire input, first to last character, is a canonical post URL.
FullMatch(t) ==
    \E p \in CanonPats :
        /\ MatchAt(t, 1, p)
        /\ Len(t) > Len(p)
        /\ \A i \in (Len(p) + 1)..Len(t) : ~IsSpace(t[i])

ApiRecognized == mode = "api" /\ pc # "input"
CliRecognized == mode = "cli" /\ pc # "input"

\* C3: for an input without a short link, extract_xhs_url returns the input
\* unchanged if and only if the entire input matches the canonical URL
\* pattern, and nothing otherwise.
C3_WholeInputMustMatch ==
    (ApiRecognized /\ ~HasShortLink(text)) =>
        url = (IF FullMatch(text) THEN Some(text) ELSE None)

\* C4: for an input that holds a short link, extract_xhs_url returns the
\* first such substring, up to the next whitespace, and not the whole input
\* that the canonical rule would return.
C4_ShortLinkFirst ==
    (ApiRecognized /\ HasShortLink(text)) =>
        /\ url.some
        /\ \E i \in 1..Len(text) : \E j \in i..Len(text) :
              /\ url.v = SubSeq(text, i, j)
              /\ MatchAt(text, i, ShortPat)
              /\ j >= i + Len(ShortPat)
              /\ \A k \in i..j : ~IsSpace(text[k])
              /\ j = Len(text) \/ IsSpace(text[j + 1])
              /\ ~HasShortLink(SubSeq(text, 1, i + Len(ShortPat) - 1))
        /\ FullMatch(text) => url.v # text

C4_Witness ==
    /\ ApiRecognized
    /\ HasShortLink(text)
    /\ FullMatch(text)
    /\ url.some
    /\ url.v # text
    /\ Len(url.v) = Len(ShortPat) + 1

\* C6: the script recognizes URLs exactly as extract_xhs_url does: it goes on
\* with URL u if and only if extract_xhs_url returns u, and it exits at once
\* with a non-zero status if and only if extract_xhs_url returns nothing.
C6_CliRecognizesAsApi ==
    CliRecognized =>
        /\ url = extract_xhs_url(text)
        /\ (pc = "done" /\ fetches = 0 /\ exit # 0) <=> ~extract_xhs_url(text).some

\* C7: the API handler recognizes, then fetches, then extracts, and stops at
\* the first failure: at most one fetch, and only with a recognized URL;
\* extraction only after a fetch that succeeded; no URL gives 400 without a
\* fetch; a failed fetch gives 500 without extraction.
C7_RecognizeFetchExtract ==
    mode = "api" =>
        /\ fetches <= 1
        /\ extracts <= 1
        /\ fetches >= 1 => (~Falsy(url) /\ fetched # "no")
        /\ extracts >= 1 => (fetches = 1 /\ fetched = "ok")
        /\ Falsy(url) => (status = 400 /\ pc = "done" /\ fetches = 0 /\ extracts = 0)
        /\ status = 400 => Falsy(url)
        /\ fetched \in FetchFailures =>
              (status = 500 /\ pc = "done" /\ extracts = 0 /\ res.end = "none")

C7_Witness ==
    /\ mode = "api"
    /\ fetched = "Timeout"
    /\ status = 500
    /\ fetches = 1
    /\ extracts = 0

\* ------------------------------------------------- claims on scrape_xhs
\* scrape_xhs got a page and ended.
Scraped == pc \in {"api_returned", "cli_returned"} /\ fetched = "ok"
Returned == Scraped /\ res.end = "dict"

\* What the same copy of scrape_xhs makes of a page.
ExtractOf(d) == IF pc = "api_returned" THEN ApiExtract(d) ELSE CliExtract(d)

\* The page without its state blob: what the HTML tiers alone decide.
HtmlOnly(d) == [d EXCEPT !.script = "absent", !.state = EmptyDict]

\* Decoding the state blob failed at some step.
DecodingFailed(d) == d.script \in {"badjson", "json"} /\ StructuredTier(d).exc # ""

\* C1: scrape_xhs returns a result record for every fetched page, whatever
\* the state blob holds; no exception leaves it.
C1_NeverRaises == Scraped => res.end = "dict"

\* C2: when decoding the state blob fails at any step, title, body and
\* image_urls of the record are what the HTML tiers alone decide; nothing
\* read from the blob before the failure is kept.
C2_StructuredTierAtomic ==
    (Returned /\ DecodingFailed(doc)) =>
        /\ res.title = ExtractOf(HtmlOnly(doc)).title
        /\ res.body = ExtractOf(HtmlOnly(doc)).body
        /\ res.image_urls = ExtractOf(HtmlOnly(doc)).image_urls

\* The values of s in order, each kept at its first occurrence only.
RECURSIVE FirstOccurrences(_)
FirstOccurrences(s) ==
    IF s = <<>> THEN <<>>
    ELSE LET front == SubSeq(s, 1, Len(s) - 1)
         IN  IF \E i \in 1..Len(front) : front[i] = s[Len(s)]
             THEN FirstOccurrences(front)
             ELSE Append(FirstOccurrences(front), s[Len(s)])

\* The og:image tags the tier reads: those with name="og:image" when there is
\* one, else those with property="og:image".
SelectedOg(d) ==
    IF \E i \in 1..Len(d.tags) : d.tags[i].type = "og_name"
    THEN SelectSeq(d.tags, LAMBDA t : t.type = "og_name")
    ELSE SelectSeq(d.tags, LAMBDA t : t.type = "og_prop")

\* The non-empty values of the content/href attribute of tags, in order.
Contents(tags) ==
    LET set == SelectSeq(tags, LAMBDA t : t.val.some /\ t.val.v # <<>>)
    IN  [i \in 1..Len(set) |-> PStr(set[i].val.v)]

NoStructuredImage(d) == StructuredTier(d).image_urls = <<>>

\* C5: when the structured tier yields no image and the Open Graph tags
\* carry a value, image_urls is the non-empty content values of the selected
\* og:image tags in document order, each value once.
C5_OgDeduplicated ==
    (Returned /\ NoStructuredImage(doc) /\ Contents(SelectedOg(doc)) # <<>>) =>
        res.image_urls = FirstOccurrences(Contents(SelectedOg(doc)))

\* C8: in a returned record title and body are never None.
C8_NeverNull == Returned => (res.title.k # "none" /\ res.body.k # "none")

\* C9: in a returned record image_urls holds no empty string, whichever tier
\* filled it.
C9_NoEmptyImageUrl ==
    Returned => \A i \in 1..Len(res.image_urls) : res.image_urls[i] # EmptyStr

\* A page whose og:image tags gave the images although one of them has no
\* content.
C9_Witness ==
    /\ Returned
    /\ NoStructuredImage(doc)
    /\ \E i \in 1..Len(SelectedOg(doc)) : ~SelectedOg(doc)[i].val.some
    /\ Contents(SelectedOg(doc)) # <<>>
    /\ res.image_urls = Contents(SelectedOg(doc))
    /\ Len(res.image_urls) = 2

Range(s) == { s[i] : i \in 1..Len(s) }

\* C10: when the structured tier and the Open Graph tier both give no
\* non-empty URL, the preload links are read: image_urls holds their non-empty
\* href values, and it is empty only if they gave nothing either.
C10_FallsThroughOnValues ==
    (Returned /\ NoStructuredImage(doc) /\ Contents(SelectedOg(doc)) = <<>>) =>
        LET hrefs == Contents(SelectSeq(doc.tags, LAMBDA t : t.type = "preload"))
        IN  /\ hrefs # <<>> => Range(res.image_urls) = Range(hrefs)
            /\ res.image_urls = <<>> => hrefs = <<>>

====
